---- MODULE Spec2Model ----
(***************************************************************************)
(* Model of the gateway event decoder (models/gateway/events/mod.rs:       *)
(* Event::try_from and handle_dispatch) and of the Message convenience     *)
(* actions (models/channel/message.rs: impl Message).                      *)
(*                                                                         *)
(* The decoder is a pure function of one Payload.  Spec starts with any    *)
(* payload of Payloads received, records what Event::try_from returns for  *)
(* it (TryFrom) and hands that to the caller (Deliver).  MsgSpec runs the  *)
(* Message actions, which are async: a call builds a future, its first     *)
(* poll sends the request, the REST collaborator answers the requests that *)
(* are out in any order and with any outcome, and a later poll returns the *)
(* answer; several futures may be in flight and any may be dropped.        *)
(***************************************************************************)
EXTENDS Integers, Sequences, FiniteSets

VARIABLES
    pc,         \* decoder position: "received", "done" or "idle"
    frame,      \* the Payload handed to Event::try_from
    result,     \* what Event::try_from returned for frame
    msg,        \* the Message value the actions are called on
    msg0,       \* the Message value as it was constructed
    calls,      \* the actions called so far, in order
    requests,   \* the requests the REST collaborator received, in order
    responses,  \* the collaborator's answers, each to the request it answers
    returns,    \* what the calls have returned to their callers
    remote,     \* collaborator side: the <<channel, message>> pairs pinned
    futures     \* per call: captured arguments, stage, its request, its return

decoderVars == <<pc, frame, result>>
messageVars == <<msg, msg0, calls, requests, responses, returns, remote, futures>>
vars == <<pc, frame, result, msg, msg0, calls, requests, responses, returns, remote,
         futures>>

(***************************************************************************)
(* Bounds                                                                  *)
(***************************************************************************)
\* opcodes 0..MaxOp are fed to the decoder
MaxOp == 12
\* sequence numbers 0..MaxSeq
MaxSeq == 1
\* number of Message actions in one run
MaxCalls == 2

(***************************************************************************)
(* serde_json::Value                                                       *)
(***************************************************************************)
\* Scalars.  A number keeps serde_json's representation: PosInt (u64),
\* NegInt (a negative i64) or Float.
JNull == [kind |-> "null", b |-> FALSE, rep |-> "-", n |-> 0, s |-> ""]
JBool(v) == [kind |-> "bool", b |-> v, rep |-> "-", n |-> 0, s |-> ""]
JPosInt(v) == [kind |-> "number", b |-> FALSE, rep |-> "PosInt", n |-> v, s |-> ""]
JNegInt(v) == [kind |-> "number", b |-> FALSE, rep |-> "NegInt", n |-> v, s |-> ""]
JFloat(v) == [kind |-> "number", b |-> FALSE, rep |-> "Float", n |-> v, s |-> ""]
JString(v) == [kind |-> "string", b |-> FALSE, rep |-> "-", n |-> 0, s |-> v]
\* a key that an object does not have
JMissing == [kind |-> "missing", b |-> FALSE, rep |-> "-", n |-> 0, s |-> ""]

\* A Value: a scalar, an array of scalars (elems) or an object.  Of an object
\* the model keeps the value under the key "heartbeat_interval" (hb) and the
\* set of dispatch payload types it deserializes into (fits).
Scalar(sc) == [kind |-> sc.kind, sc |-> sc, elems |-> <<>>, hb |-> JMissing, fits |-> {}]
JArray(es, f) == [kind |-> "array", sc |-> JNull, elems |-> es, hb |-> JMissing, fits |-> f]
JObject(h, f) == [kind |-> "object", sc |-> JNull, elems |-> <<>>, hb |-> h, fits |-> f]

\* Option<T>
None == [some |-> FALSE]
Some(v) == [some |-> TRUE, v |-> v]

(***************************************************************************)
(* Results: Result<Event, PandaError>, or the unwinding of a panic         *)
(***************************************************************************)
Pending == [outcome |-> "Pending"]
Panic == [outcome |-> "Panic"]
Err(e, nm) == [outcome |-> "Err", err |-> e, name |-> nm]
OkReconnect == [outcome |-> "Ok", event |-> "Reconnect"]
OkHeartbeatACK == [outcome |-> "Ok", event |-> "HeartbeatACK"]
OkInvalidSession(v) == [outcome |-> "Ok", event |-> "InvalidSession", resumable |-> v]
OkHello(n) == [outcome |-> "Ok", event |-> "Hello", interval |-> n]
OkDispatch(variant, body) ==
    [outcome |-> "Ok", event |-> "Dispatch", variant |-> variant, body |-> body]

(***************************************************************************)
(* The dispatch table                                                      *)
(***************************************************************************)
\* enum DispatchEvent: the variants, in declaration order
DispatchEvent ==
    <<"Ready", "Resumed", "Reconnect", "ChannelCreate",
      "ChannelUpdate", "ChannelDelete", "ChannelPinsUpdate", "GuildCreate",
      "GuildUpdate", "GuildDelete", "GuildBanAdd", "GuildBanRemove",
      "GuildEmojisUpdate", "GuildIntegrationsUpdate", "GuildMemberAdd", "GuildMemberRemove",
      "GuildMemberUpdate", "GuildMembersChunk", "GuildRoleCreate", "GuildRoleUpdate",
      "GuildRoleDelete", "MessageCreate", "MessageUpdate", "MessageDelete",
      "MessageDeleteBulk", "MessageReactionAdd", "MessageReactionRemove", "MessageReactionRemoveAll",
      "MessageReactionRemoveEmoji", "PresenceUpdate", "TypingStart", "UserUpdate",
      "VoiceStateUpdate", "VoiceServerUpdate">>

\* The arms of `match t.as_str()` in handle_dispatch, in source order: the
\* literal matched, the literal handed to parse_dispatch! as the error name,
\* the DispatchEvent variant built, and whether the arm parses d at all.
DispatchArms == <<
    [tag |-> "READY", name |-> "READY", variant |-> "Ready", parses |-> TRUE],
    [tag |-> "RESUMED", name |-> "", variant |-> "Resumed", parses |-> FALSE],
    [tag |-> "RECONNECT", name |-> "", variant |-> "Reconnect", parses |-> FALSE],
    [tag |-> "CHANNEL_CREATE", name |-> "CHANNEL_CREATE", variant |-> "ChannelCreate", parses |-> TRUE],
    [tag |-> "CHANNEL_UPDATE", name |-> "CHANNEL_CREATE", variant |-> "ChannelUpdate", parses |-> TRUE],
    [tag |-> "CHANNEL_DELETE", name |-> "CHANNEL_CREATE", variant |-> "ChannelDelete", parses |-> TRUE],
    [tag |-> "CHANNEL_PINS_UPDATE", name |-> "CHANNEL_PINS_UPDATE", variant |-> "ChannelPinsUpdate", parses |-> TRUE],
    [tag |-> "GUILD_CREATE", name |-> "GUILD_CREATE", variant |-> "GuildCreate", parses |-> TRUE],
    [tag |-> "GUILD_UPDATE", name |-> "GUILD_UPDATE", variant |-> "GuildUpdate", parses |-> TRUE],
    [tag |-> "GUILD_DELETE", name |-> "GUILD_DELETE", variant |-> "GuildDelete", parses |-> TRUE],
    [tag |-> "GUILD_BAN_ADD", name |-> "GUILD_BAN_ADD", variant |-> "GuildBanAdd", parses |-> TRUE],
    [tag |-> "GUILD_BAN_REMOVE", name |-> "GUILD_BAN_REMOVE", variant |-> "GuildBanRemove", parses |-> TRUE],
    [tag |-> "GUILD_EMOJIS_UPDATE", name |-> "GUILD_EMOJIS_UPDATE", variant |-> "GuildEmojisUpdate", parses |-> TRUE],
    [tag |-> "GUILD_INTEGRATIONS_UPDATE", name |-> "GUILD_INTEGRATIONS_UPDATE", variant |-> "GuildIntegrationsUpdate", parses |-> TRUE],
    [tag |-> "GUILD_MEMBER_ADD", name |-> "GUILD_MEMBER_ADD", variant |-> "GuildMemberAdd", parses |-> TRUE],
    [tag |-> "GUILD_MEMBER_UPDATE", name |-> "GUILD_MEMBER_UPDATE", variant |-> "GuildMemberUpdate", parses |-> TRUE],
    [tag |-> "GUILD_MEMBER_REMOVE", name |-> "GUILD_MEMBER_REMOVE", variant |-> "GuildMemberRemove", parses |-> TRUE],
    [tag |-> "GUILD_MEMBER_CHUNK", name |-> "GUILD_MEMBER_CHUNK", variant |-> "GuildMembersChunk", parses |-> TRUE],
    [tag |-> "GUILD_ROLE_CREATE", name |-> "GUILD_ROLE_CREATE", variant |-> "GuildRoleCreate", parses |-> TRUE],
    [tag |-> "GUILD_ROLE_UPDATE", name |-> "GUILD_ROLE_CREATE", variant |-> "GuildRoleUpdate", parses |-> TRUE],
    [tag |-> "GUILD_ROLE_DELETE", name |-> "GUILD_ROLE_DELETE", variant |-> "GuildRoleDelete", parses |-> TRUE],
    [tag |-> "MESSAGE_CREATE", name |-> "MESSAGE_CREATE", variant |-> "MessageCreate", parses |-> TRUE],
    [tag |-> "MESSAGE_UPDATE", name |-> "MESSAGE_UPDATE", variant |-> "MessageUpdate", parses |-> TRUE],
    [tag |-> "MESSAGE_DELETE", name |-> "MESSAGE_DELETE", variant |-> "MessageDelete", parses |-> TRUE],
    [tag |-> "MESSAGE_DELETE_BULK", name |-> "MESSAGE_DELETE_BULK", variant |-> "MessageDeleteBulk", parses |-> TRUE],
    [tag |-> "MESSAGE_REACTION_ADD", name |-> "MESSAGE_REACTION_ADD", variant |-> "MessageReactionAdd", parses |-> TRUE],
    [tag |-> "MESSAGE_REACTION_REMOVE", name |-> "MESSAGE_REACTION_REMOVE", variant |-> "MessageReactionRemove", parses |-> TRUE],
    [tag |-> "MESSAGE_REACTION_REMOVE_ALL", name |-> "MESSAGE_REACTION_REMOVE_ALL", variant |-> "MessageReactionRemoveAll", parses |-> TRUE],
    [tag |-> "MESSAGE_REACTION_REMOVE_EMOJI", name |-> "MESSAGE_REACTION_REMOVE_EMOJI", variant |-> "MessageReactionRemoveEmoji", parses |-> TRUE],
    [tag |-> "PRESENCE_UPDATE", name |-> "PRESENCE_UPDATE", variant |-> "PresenceUpdate", parses |-> TRUE],
    [tag |-> "TYPING_START", name |-> "TYPING_START", variant |-> "TypingStart", parses |-> TRUE],
    [tag |-> "USER_UPDATE", name |-> "USER_UPDATE", variant |-> "UserUpdate", parses |-> TRUE],
    [tag |-> "VOICE_STATE_UPDATE", name |-> "VOICE_STATE_UPDATE", variant |-> "VoiceStateUpdate", parses |-> TRUE],
    [tag |-> "VOICE_SERVER_UPDATE", name |-> "VOICE_SERVER_UPDATE", variant |-> "VoiceServerUpdate", parses |-> TRUE]
>>

RecognizedTags == {DispatchArms[i].tag : i \in DOMAIN DispatchArms}

\* the payload types the parsing arms deserialize d into, named as their variant
PayloadTypes == {DispatchArms[i].variant : i \in {j \in DOMAIN DispatchArms : DispatchArms[j].parses}}

(***************************************************************************)
(* Tags fed to the decoder                                                 *)
(***************************************************************************)
\* tags that are in no arm: unrelated ones, and ones that differ from a
\* recognized tag in letter case only, or are a proper prefix or an extension
UnrelatedTags == {"SOME_FUTURE_EVENT", "", "GUILD_MEMBERS_CHUNK"}
CaseVariants ==
    {<<"ready", "READY">>, <<"Ready", "READY">>, <<"resumed", "RESUMED">>,
     <<"message_create", "MESSAGE_CREATE">>, <<"Message_Create", "MESSAGE_CREATE">>,
     <<"channel_update", "CHANNEL_UPDATE">>, <<"MESSAGE_CREATe", "MESSAGE_CREATE">>}
PrefixVariants ==
    {<<"READ", "READY">>, <<"MESSAGE", "MESSAGE_CREATE">>,
     <<"MESSAGE_CREAT", "MESSAGE_CREATE">>, <<"CHANNEL", "CHANNEL_UPDATE">>,
     <<"R", "RECONNECT">>}
ExtensionVariants ==
    {<<"READY_", "READY">>, <<"READYY", "READY">>, <<"RESUMED ", "RESUMED">>,
     <<"MESSAGE_CREATE_X", "MESSAGE_CREATE">>, <<"CHANNEL_UPDATES", "CHANNEL_UPDATE">>}
NearMisses == CaseVariants \cup PrefixVariants \cup ExtensionVariants
Tags == RecognizedTags \cup UnrelatedTags \cup {nm[1] : nm \in NearMisses}

(***************************************************************************)
(* Deserialization (serde_json::from_value)                                *)
(***************************************************************************)
\* u64 from a Value: only a non-negative integer number is accepted
IsU64(sc) == sc.kind = "number" /\ sc.rep = "PosInt"

\* from_value::<Hello>(d) for `struct Hello { heartbeat_interval: u64 }`:
\* an object needs the key with a u64 under it (other keys are ignored); an
\* array is read as the fields in order and must hold exactly the one u64;
\* every other Value is an invalid type.
HelloFromValue(d) ==
    CASE d.kind = "object" -> IF IsU64(d.hb) THEN Some(d.hb.n) ELSE None
      [] d.kind = "array" ->
            IF Len(d.elems) = 1 /\ IsU64(d.elems[1]) THEN Some(d.elems[1].n) ELSE None
      [] OTHER -> None

\* from_value::<T>(d) succeeds for a dispatch payload type T
Deserializes(d, ty) == ty \in d.fits

\* parse_dispatch!(event, name), with the target type the arm's variant wraps
parse_dispatch(event, name, ty) ==
    IF Deserializes(event, ty)
    THEN OkDispatch(ty, Some(event))
    ELSE Err("InvalidPayloadFormat", name)

(***************************************************************************)
(* handle_dispatch                                                         *)
(***************************************************************************)
\* bug: t is looked at before d
MissingField_TFirst(p) ==
    IF ~p.t.some THEN "T"
    ELSE IF ~p.d.some THEN "D"
    ELSE ""

\* bug: the two error names are swapped
MissingField_SwappedNames(p) ==
    IF ~p.d.some THEN "T"
    ELSE IF ~p.t.some THEN "D"
    ELSE ""

\* the two ok_or_else lines: the name of the first field found missing, d
\* before t, or "" when both are there
MissingField(p) ==
    IF ~p.d.some THEN "D"
    ELSE IF ~p.t.some THEN "T"
    ELSE ""

\* bug: the tag is matched without regard to letter case
MatchArm_IgnoreCase(t) ==
    LET u == IF \E cv \in CaseVariants : cv[1] = t
             THEN (CHOOSE cv \in CaseVariants : cv[1] = t)[2]
             ELSE t
    IN  IF \E i \in DOMAIN DispatchArms : DispatchArms[i].tag = u
        THEN CHOOSE i \in DOMAIN DispatchArms : DispatchArms[i].tag = u
        ELSE 0

\* `match t.as_str()`: the index of the arm whose literal equals t, 0 for `_`
MatchArm(t) ==
    IF \E i \in DOMAIN DispatchArms : DispatchArms[i].tag = t
    THEN CHOOSE i \in DOMAIN DispatchArms : DispatchArms[i].tag = t
    ELSE 0

\* the `_` arm of the match
UnknownDispatch(t) == Err("InvalidPayloadFormat", "Unkown D event")

\* the arm taken for a tag: parse d under the arm's error name, or, for
\* RESUMED and RECONNECT, build the variant without looking at d
RunArm(arm, d) ==
    IF arm.parses
    THEN parse_dispatch(d, arm.name, arm.variant)
    ELSE OkDispatch(arm.variant, None)

handle_dispatch(p) ==
    IF MissingField(p) # ""
    THEN Err("InvalidPayloadFormat", MissingField(p))
    ELSE IF MatchArm(p.t.v) = 0
         THEN UnknownDispatch(p.t.v)
         ELSE RunArm(DispatchArms[MatchArm(p.t.v)], p.d.v)

(***************************************************************************)
(* Event::try_from                                                         *)
(***************************************************************************)
\* The Opcode variants that Event::try_from names, by their wire number (the
\* numbers are the ones noted on enum Event); every other Opcode is "Other".
Opcode(op) ==
    CASE op = 0 -> "Dispatch"
      [] op = 7 -> "Reconnect"
      [] op = 9 -> "InvalidSessionData"
      [] op = 10 -> "Hello"
      [] op = 11 -> "HeartbeatACK"
      [] OTHER -> "Other"

\* bug: a d that is no boolean counts as "not resumable"
InvalidSessionArm_Lenient(p) ==
    IF ~p.d.some THEN Err("InvalidPayloadFormat", "INVALID SESSION DATA")
    ELSE IF p.d.v.kind = "bool" THEN OkInvalidSession(p.d.v.sc.b)
    ELSE OkInvalidSession(FALSE)

\* Opcode::InvalidSessionData arm
InvalidSessionArm(p) ==
    IF ~p.d.some THEN Err("InvalidPayloadFormat", "INVALID SESSION DATA")
    ELSE IF p.d.v.kind = "bool" THEN OkInvalidSession(p.d.v.sc.b)
    ELSE Err("InvalidPayloadFormat", "INVALID SESSION DATA")

\* Opcode::Hello arm: from_value(d).unwrap() panics when d does not parse
HelloArm(p) ==
    IF ~p.d.some THEN Err("InvalidPayloadFormat", "HELLO")
    ELSE IF HelloFromValue(p.d.v).some THEN OkHello(HelloFromValue(p.d.v).v)
    ELSE Panic

\* bug: a reconnect frame that carries d or t is refused
ReconnectArm_Strict(p) ==
    IF p.d.some \/ p.t.some
    THEN Err("InvalidPayloadFormat", "RECONNECT")
    ELSE OkReconnect

\* Opcode::Reconnect and Opcode::HeartbeatACK arms: p is not looked at
ReconnectArm(p) == OkReconnect
HeartbeatACKArm(p) == OkHeartbeatACK

\* bug: an unknown opcode is reported as a format error
UnexpectedArm_FormatError(p) == Err("InvalidPayloadFormat", "OPCODE")

\* the `_` arm
UnexpectedArm(p) == Err("UnexpectedPayloadReceived", "")

try_from(p) ==
    CASE Opcode(p.op) = "Dispatch" -> handle_dispatch(p)
      [] Opcode(p.op) = "Reconnect" -> ReconnectArm(p)
      [] Opcode(p.op) = "InvalidSessionData" -> InvalidSessionArm(p)
      [] Opcode(p.op) = "Hello" -> HelloArm(p)
      [] Opcode(p.op) = "HeartbeatACK" -> HeartbeatACKArm(p)
      [] OTHER -> UnexpectedArm(p)

(***************************************************************************)
(* Payloads fed to the decoder                                             *)
(***************************************************************************)
Intervals == {0, 41250}
Scalars ==
    {JNull, JBool(TRUE), JBool(FALSE), JNegInt(-1), JFloat(41250), JString("x")}
        \cup {JPosInt(n) : n \in Intervals}
Arrays ==
    {JArray(<<>>, {}), JArray(<<JPosInt(41250)>>, {}), JArray(<<JString("x")>>, {}),
     JArray(<<JPosInt(41250), JPosInt(0)>>, {}), JArray(<<JNegInt(-1)>>, {})}
Objects ==
    {JObject(h, {}) : h \in Scalars \cup {JMissing}}
        \cup {JObject(JMissing, {ty}) : ty \in PayloadTypes}
        \cup {JObject(h, PayloadTypes) : h \in {JMissing, JPosInt(41250)}}
Values == {Scalar(sc) : sc \in Scalars} \cup Arrays \cup Objects

Options(S) == {None} \cup {Some(v) : v \in S}

Payloads ==
    [op : 0..MaxOp, d : Options(Values), s : Options(0..MaxSeq), t : Options(Tags)]

NoPayload == [op |-> 0, d |-> None, s |-> None, t |-> None]

(***************************************************************************)
(* The decoder as a state machine                                          *)
(***************************************************************************)
\* Event::try_from(frame)
TryFrom ==
    /\ pc = "received"
    /\ pc' = "done"
    /\ result' = try_from(frame)
    /\ UNCHANGED frame
    /\ UNCHANGED messageVars

\* the caller takes the result; the decoder keeps nothing
Deliver ==
    /\ pc = "done"
    /\ pc' = "idle"
    /\ frame' = NoPayload
    /\ result' = Pending
    /\ UNCHANGED messageVars

(***************************************************************************)
(* Message and its actions                                                 *)
(***************************************************************************)
\* struct Message, with the fields the actions read and the flags they might
\* be thought to touch
Message(id, channel_id, content, pinned) ==
    [id |-> id, channel_id |-> channel_id, content |-> content,
     tts |-> FALSE, mention_everyone |-> FALSE, pinned |-> pinned]

\* one call on HttpClient: the method, its channel and message arguments and
\* its remaining argument (content, embed or emoji)
Request(method, channel_id, message_id, arg) ==
    [method |-> method, channel_id |-> channel_id, message_id |-> message_id, arg |-> arg]

\* What the body of a method does when its future is first polled, up to
\* the .await: the HttpClient calls it makes (reqs) and the Message value
\* behind &self afterwards (self).
send(m, content) ==
    [reqs |-> <<Request("send_message", m.channel_id, None, content)>>, self |-> m]

send_embed(m, embed) ==
    [reqs |-> <<Request("send_embed", m.channel_id, None, embed)>>, self |-> m]

add_reaction(m, emoji) ==
    [reqs |-> <<Request("add_reaction", m.channel_id, Some(m.id), emoji)>>, self |-> m]

add_reaction_to_message(m, message_id, emoji) ==
    [reqs |-> <<Request("add_reaction", m.channel_id, Some(message_id), emoji)>>, self |-> m]

remove(m) ==
    [reqs |-> <<Request("delete_message", m.channel_id, Some(m.id), "")>>, self |-> m]

\* bug: the pin is written into the local value
pin_Mutating(m) ==
    [reqs |-> <<Request("pin_message", m.channel_id, Some(m.id), "")>>,
     self |-> [m EXCEPT !.pinned = TRUE]]

pin(m) ==
    [reqs |-> <<Request("pin_message", m.channel_id, Some(m.id), "")>>, self |-> m]

\* bug: the unpin is written into the local value
unpin_Mutating(m) ==
    [reqs |-> <<Request("unpin_message", m.channel_id, Some(m.id), "")>>,
     self |-> [m EXCEPT !.pinned = FALSE]]

unpin(m) ==
    [reqs |-> <<Request("unpin_message", m.channel_id, Some(m.id), "")>>, self |-> m]

\* the body of the method called, with the arguments its future captured
Body(name, m, args) ==
    CASE name = "send" -> send(m, args.arg)
      [] name = "send_embed" -> send_embed(m, args.arg)
      [] name = "add_reaction" -> add_reaction(m, args.arg)
      [] name = "add_reaction_to_message" -> add_reaction_to_message(m, args.mid, args.arg)
      [] name = "remove" -> remove(m)
      [] name = "pin" -> pin(m)
      [] name = "unpin" -> unpin(m)

\* `http.x(..).await` is the tail expression of every method: what the
\* collaborator answered is what the method returns
await_result(answer) == answer

\* The REST collaborator: what it may answer to a request, and what a
\* successful pin or unpin does to the pins it keeps.
\* the () of Result<()>
Unit == [unit |-> TRUE]

HttpFailures == {"HttpError"}
HttpAnswers(req) ==
    {[ok |-> FALSE, error |-> e] : e \in HttpFailures}
        \cup {IF req.method \in {"send_message", "send_embed"}
              THEN [ok |-> TRUE, value |-> Message("new", req.channel_id, req.arg, FALSE)]
              ELSE [ok |-> TRUE, value |-> Unit]}

HttpApply(pins, req, resp) ==
    IF ~resp.ok THEN pins
    ELSE CASE req.method = "pin_message" -> pins \cup {<<req.channel_id, req.message_id.v>>}
           [] req.method = "unpin_message" -> pins \ {<<req.channel_id, req.message_id.v>>}
           [] OTHER -> pins

\* the pins the collaborator keeps when the Message value was decoded
HttpPins(m) == IF m.pinned THEN {<<m.channel_id, m.id>>} ELSE {}

Contents == {"hi"}
Embeds == {"embed"}
Emojis == {"thumbsup"}
MessageIds == {"m2"}
\* a message that is not pinned and one that is, in different channels
Messages == {Message("m1", "c1", "hello", FALSE), Message("m1", "c2", "hello", TRUE)}

\* the requests that have been answered
Answered == {r.to : r \in responses}
AnswerTo(k) == (CHOOSE r \in responses : r.to = k).answer

\* Calling an async fn only builds its future, which captures &self and the
\* arguments; nothing of the body has run.
Invoke(name, args) ==
    /\ Len(calls) < MaxCalls
    /\ calls' = Append(calls, name)
    /\ futures' = Append(futures, [args |-> args, stage |-> "created", req |-> 0, ret |-> None])
    /\ UNCHANGED <<msg, msg0, requests, responses, returns, remote>>
    /\ UNCHANGED decoderVars

Send == \E c \in Contents : Invoke("send", [arg |-> c, mid |-> ""])

SendEmbed == \E e \in Embeds : Invoke("send_embed", [arg |-> e, mid |-> ""])

AddReaction == \E e \in Emojis : Invoke("add_reaction", [arg |-> e, mid |-> ""])

AddReactionToMessage ==
    \E mid \in MessageIds, e \in Emojis :
        Invoke("add_reaction_to_message", [arg |-> e, mid |-> mid])

Remove == Invoke("remove", [arg |-> "", mid |-> ""])

Pin == Invoke("pin", [arg |-> "", mid |-> ""])

Unpin == Invoke("unpin", [arg |-> "", mid |-> ""])

\* The first poll of a future: the body runs to its .await, the request goes
\* to the collaborator and the future is suspended.
Poll(i) ==
    /\ futures[i].stage = "created"
    /\ LET eff == Body(calls[i], msg, futures[i].args)
       IN  /\ requests' = requests \o eff.reqs
           /\ msg' = eff.self
    /\ futures' = [futures EXCEPT ![i].stage = "awaiting", ![i].req = Len(requests) + 1]
    /\ UNCHANGED <<msg0, calls, responses, returns, remote>>
    /\ UNCHANGED decoderVars

\* The collaborator answers a request that is out, in any order, whether or
\* not the future that made it is still there.
Answer(k) ==
    /\ k \notin Answered
    /\ \E resp \in HttpAnswers(requests[k]) :
          /\ responses' = responses \cup {[to |-> k, answer |-> resp]}
          /\ remote' = HttpApply(remote, requests[k], resp)
    /\ UNCHANGED <<msg, msg0, calls, futures, requests, returns>>
    /\ UNCHANGED decoderVars

\* A poll after the answer has come: the method returns.
Resume(i) ==
    /\ futures[i].stage = "awaiting"
    /\ futures[i].req \in Answered
    /\ LET ret == await_result(AnswerTo(futures[i].req))
       IN  /\ returns' = returns \cup {[of |-> i, value |-> ret]}
           /\ futures' = [futures EXCEPT ![i].stage = "returned", ![i].ret = Some(ret)]
    /\ UNCHANGED <<msg, msg0, calls, requests, responses, remote>>
    /\ UNCHANGED decoderVars

\* The caller drops a future that is suspended at its .await: the request is
\* out and the method never returns.  (A future that is never polled is a
\* call that stays "created".)
Drop(i) ==
    /\ futures[i].stage = "awaiting"
    /\ futures' = [futures EXCEPT ![i].stage = "dropped"]
    /\ UNCHANGED <<msg, msg0, calls, requests, responses, returns, remote>>
    /\ UNCHANGED decoderVars

(***************************************************************************)
(* Specifications                                                          *)
(***************************************************************************)
NoCalls ==
    /\ calls = <<>>
    /\ requests = <<>>
    /\ responses = {}
    /\ returns = {}
    /\ futures = <<>>

\* the transport has handed over one payload
Init ==
    /\ pc = "received"
    /\ frame \in Payloads
    /\ result = Pending
    /\ msg = Message("m1", "c1", "hello", FALSE)
    /\ msg0 = msg
    /\ remote = {}
    /\ NoCalls

Next ==
    \/ TryFrom
    \/ Deliver

Spec == Init /\ [][Next]_vars

MsgInit ==
    /\ pc = "idle"
    /\ frame = NoPayload
    /\ result = Pending
    /\ msg \in Messages
    /\ msg0 = msg
    /\ remote = HttpPins(msg)
    /\ NoCalls

MsgNext ==
    \/ Send
    \/ SendEmbed
    \/ AddReaction
    \/ AddReactionToMessage
    \/ Remove
    \/ Pin
    \/ Unpin
    \/ \E i \in DOMAIN futures : Poll(i)
    \/ \E k \in DOMAIN requests : Answer(k)
    \/ \E i \in DOMAIN futures : Resume(i)
    \/ \E i \in DOMAIN futures : Drop(i)

MsgSpec == MsgInit /\ [][MsgNext]_vars

(***************************************************************************)
(* Properties                                                              *)
(***************************************************************************)
Decoded == pc = "done"
IsEvent(r) == r.outcome = "Ok"
FormatError(r) == r.outcome = "Err" /\ r.err = "InvalidPayloadFormat"
FormatErrorNamed(r, nm) == FormatError(r) /\ r.name = nm
DispatchWith(r, variant) ==
    r.outcome = "Ok" /\ r.event = "Dispatch" /\ r.variant = variant
\* a dispatch frame with d and t present
FullDispatch == Decoded /\ frame.op = 0 /\ frame.d.some /\ frame.t.some
ArmOf(t) == CHOOSE i \in DOMAIN DispatchArms : DispatchArms[i].tag = t

\* C1: a dispatch frame with d present and a tag t that is in no arm
\* fails with an error that is no format error and that carries t.
C1_UnknownTagOwnError ==
    (FullDispatch /\ frame.t.v \notin RecognizedTags)
        => /\ result.outcome = "Err"
           /\ result.err # "InvalidPayloadFormat"
           /\ result.name = frame.t.v

\* C2: a hello frame (opcode 10) yields the hello signal carrying n when d
\* parses into a structure with the u64 heartbeat_interval n, and a format
\* error when d is absent or does not parse; decoding never panics.
C2_HelloNeverPanics ==
    Decoded =>
        /\ result.outcome # "Panic"
        /\ frame.op = 10 =>
              IF frame.d.some /\ HelloFromValue(frame.d.v).some
              THEN result = OkHello(HelloFromValue(frame.d.v).v)
              ELSE FormatError(result)

\* C3: a recognized tag T whose arm parses d, with a d that does not
\* deserialize into T's payload type, fails with a format error named T.
C3_FormatErrorNamesTag ==
    (FullDispatch /\ frame.t.v \in RecognizedTags) =>
        LET arm == DispatchArms[ArmOf(frame.t.v)]
        IN  (arm.parses /\ ~Deserializes(frame.d.v, arm.variant))
                => FormatErrorNamed(result, frame.t.v)

\* C4 as stated: an opcode-0 frame without t fails with the format error
\* naming T, one without d with the format error naming D, and neither
\* yields an event.
C4_EachMissingFieldNamed ==
    (Decoded /\ frame.op = 0) =>
        /\ ~frame.t.some => FormatErrorNamed(result, "T")
        /\ ~frame.d.some => FormatErrorNamed(result, "D")
        /\ (~frame.d.some \/ ~frame.t.some) => ~IsEvent(result)

\* C4 amended: an opcode-0 frame without d fails with the format error naming
\* D; one with d but without t fails with the format error naming T; no event
\* comes from an opcode-0 frame that lacks d or t.
C4_MissingFieldNamed ==
    (Decoded /\ frame.op = 0) =>
        /\ (frame.d.some /\ ~frame.t.some) => FormatErrorNamed(result, "T")
        /\ ~frame.d.some => FormatErrorNamed(result, "D")
        /\ (~frame.d.some \/ ~frame.t.some) => ~IsEvent(result)

C4_Witness ==
    /\ Decoded
    /\ frame.op = 0
    /\ frame.d.some
    /\ ~frame.t.some
    /\ FormatErrorNamed(result, "T")

\* C5: every frame whose opcode is outside {0, 1, 7, 9, 10, 11} fails with
\* the unexpected-opcode error, whatever d, s and t hold.
C5_UnexpectedOpcode ==
    (Decoded /\ frame.op \notin {0, 1, 7, 9, 10, 11})
        => result.outcome = "Err" /\ result.err = "UnexpectedPayloadReceived"

C5_Witness ==
    /\ Decoded
    /\ frame.op = 8
    /\ frame.d.some
    /\ frame.s.some
    /\ frame.t.some
    /\ frame.t.v \in RecognizedTags
    /\ result.outcome = "Err"
    /\ result.err = "UnexpectedPayloadReceived"

\* C6: an invalid-session frame (opcode 9) yields the invalid-session signal
\* with resumable = b when d is the boolean b, and a format error, with no
\* signal, when d is absent or is anything but a boolean.
C6_InvalidSession ==
    (Decoded /\ frame.op = 9) =>
        IF frame.d.some /\ frame.d.v.kind = "bool"
        THEN result = OkInvalidSession(frame.d.v.sc.b)
        ELSE FormatError(result)

C6_Witness ==
    /\ Decoded
    /\ frame.op = 9
    /\ frame.d = Some(Scalar(JBool(FALSE)))
    /\ result = OkInvalidSession(FALSE)

\* a frame breaks the envelope invariant when d or t is missing from a
\* dispatch frame or present in any other frame
BreaksEnvelope(p) ==
    IF p.op = 0 THEN ~p.d.some \/ ~p.t.some ELSE p.d.some \/ p.t.some

\* C7 as stated: every frame that breaks the envelope invariant (d and t
\* present iff the opcode is dispatch) is rejected and yields no event.
C7_EnvelopeEnforced ==
    (Decoded /\ BreaksEnvelope(frame)) => result.outcome = "Err"

\* C7 amended: the decoder enforces the envelope invariant for dispatch
\* frames only: an opcode-0 frame yields an event only with d and t both
\* present.  Opcodes 7 and 11 yield their signal whatever d, s and t hold, and
\* for every opcode but 0 the outcome is the one of the same frame without t.
C7_EnvelopeDispatchOnly ==
    Decoded =>
        /\ (frame.op = 0 /\ IsEvent(result)) => (frame.d.some /\ frame.t.some)
        /\ frame.op = 7 => result = OkReconnect
        /\ frame.op = 11 => result = OkHeartbeatACK
        /\ frame.op # 0 => result = try_from([frame EXCEPT !.t = None])

C7_Witness ==
    /\ Decoded
    /\ frame.op = 7
    /\ frame.d.some
    /\ frame.t.some
    /\ result = OkReconnect

\* no two arms share a tag or a variant, and the arms' variants are the
\* variants of DispatchEvent
ArmsOneToOne ==
    /\ \A i, j \in DOMAIN DispatchArms :
          i # j => /\ DispatchArms[i].tag # DispatchArms[j].tag
                   /\ DispatchArms[i].variant # DispatchArms[j].variant
    /\ {DispatchArms[i].variant : i \in DOMAIN DispatchArms}
          = {DispatchEvent[i] : i \in DOMAIN DispatchEvent}

\* C8: for a dispatch frame with d present, the variant of the event is fixed
\* by t alone through an exact match: an event comes only from a tag that
\* equals an arm's literal and has that arm's variant; a d that is valid for
\* the arm yields it (MESSAGE_CREATE -> MessageCreate, CHANNEL_UPDATE ->
\* ChannelUpdate); arms and variants of DispatchEvent correspond one to one;
\* and a tag that is a recognized one in another letter case, a prefix or an
\* extension of one, yields no event.
C8_ExactTagMatch ==
    /\ ArmsOneToOne
    /\ FullDispatch =>
          /\ IsEvent(result) =>
                /\ frame.t.v \in RecognizedTags
                /\ DispatchWith(result, DispatchArms[ArmOf(frame.t.v)].variant)
          /\ (frame.t.v \in RecognizedTags /\ frame.d.v.fits = PayloadTypes)
                => DispatchWith(result, DispatchArms[ArmOf(frame.t.v)].variant)
          /\ (frame.t.v = "MESSAGE_CREATE" /\ IsEvent(result))
                => DispatchWith(result, "MessageCreate")
          /\ (frame.t.v = "CHANNEL_UPDATE" /\ IsEvent(result))
                => DispatchWith(result, "ChannelUpdate")
          /\ (\E nm \in NearMisses : nm[1] = frame.t.v) => ~IsEvent(result)

C8_Witness ==
    /\ FullDispatch
    /\ frame.t.v = "CHANNEL_UPDATE"
    /\ frame.d.v.fits = PayloadTypes
    /\ DispatchWith(result, "ChannelUpdate")

\* the actions that address this message itself
OnThisMessage == {"add_reaction", "remove", "pin", "unpin"}

\* the calls whose future has been polled
Polled == {i \in DOMAIN futures : futures[i].req # 0}
Returned == {i \in DOMAIN futures : futures[i].stage = "returned"}

\* C9: in any interleaving of Message actions, whatever the collaborator
\* answers and in whatever order: every action that has run made exactly one
\* request (none before its first poll, never a second one), to this
\* message's channel_id (and this message's id for add_reaction, remove, pin,
\* unpin); every action that has returned returned the collaborator's answer
\* to its own request, unchanged; and the Message value is what it was when
\* constructed (pin and unpin leave pinned alone).
C9_ActionsDelegate ==
    /\ msg = msg0
    /\ Len(requests) = Cardinality(Polled)
    /\ {r.of : r \in returns} = Returned
    /\ \A i, j \in Polled : i # j => futures[i].req # futures[j].req
    /\ \A i \in Polled :
          /\ futures[i].req \in DOMAIN requests
          /\ requests[futures[i].req].channel_id = msg0.channel_id
          /\ calls[i] \in OnThisMessage
                => requests[futures[i].req].message_id = Some(msg0.id)
    /\ \A i \in Returned :
          /\ futures[i].req \in Answered
          /\ futures[i].ret = Some(AnswerTo(futures[i].req))
          /\ \A r \in returns : r.of = i => r.value = AnswerTo(futures[i].req)

\* on a pinned message, pin and unpin have both returned Ok and the unpin
\* took effect last: the collaborator no longer keeps the pin, the local
\* value is still pinned
C9_Witness ==
    /\ msg.pinned
    /\ <<msg.channel_id, msg.id>> \notin remote
    /\ \E i, j \in Returned :
          /\ calls[i] = "pin"
          /\ calls[j] = "unpin"
          /\ futures[i].ret.v.ok
          /\ futures[j].ret.v.ok

\* C10: in a dispatch frame d is checked first: with d absent the failure is
\* the format error named D whatever t is (absent, unknown or recognized);
\* RESUMED and RECONNECT, which do not read d, fail the same way without d
\* and yield Resumed / Reconnect with any d that is present.
C10_DBeforeT ==
    (Decoded /\ frame.op = 0) =>
        /\ ~frame.d.some => FormatErrorNamed(result, "D")
        /\ (frame.d.some /\ frame.t = Some("RESUMED")) => DispatchWith(result, "Resumed")
        /\ (frame.d.some /\ frame.t = Some("RECONNECT")) => DispatchWith(result, "Reconnect")

C10_Witness ==
    /\ Decoded
    /\ frame.op = 0
    /\ ~frame.d.some
    /\ frame.t = Some("SOME_FUTURE_EVENT")
    /\ FormatErrorNamed(result, "D")

====
